---- MODULE Spec2Model ----
(***************************************************************************)
(* Model of the Arduino chore scheduler (Scheduler.cpp / Scheduler.h).     *)
(*                                                                         *)
(* The heap holds one Scheduler object "S" (which is its own list head),   *)
(* its TimerWrap member "TW" and the user chores.  Every object has the    *)
(* SchedulerChore fields m_parent, m_targetTime, m_interval, m_next and    *)
(* m_prev.  Pointers are node names or NULL.                               *)
(*                                                                         *)
(* Machine words are WordBits wide instead of 32: the wrap constant        *)
(* 0x40000000 is bit WordBits-2 and the interval mask 0x0fffffff keeps     *)
(* the low WordBits-4 bits, as in the source.                              *)
(*                                                                         *)
(* Dereferencing a null pointer is undefined behaviour.  Every step that   *)
(* does it has these outcomes: the program stops (pc = "fault": a trap, or *)
(* a call through a garbage vtable); or the access reaches the memory at   *)
(* address 0, which is not an object of the program.  That memory is the   *)
(* cell NULL of the heap: its contents at start are garbage, and it is     *)
(* either read-only (flash at address 0: stores are lost) or writable      *)
(* (registers or RAM at address 0: stores land and are read back).         *)
(***************************************************************************)
EXTENDS Integers, Sequences, FiniteSets, TLC

\* ------------------------------------------------------------- bounds
WordBits == 6
MaxNow == 3
MaxRuns == 2

\* ------------------------------------------------------------- constants
Word == 2 ^ WordBits
\* 0x40000000 in a 32 bit word
WrapStep == 2 ^ (WordBits - 2)
\* 0x3fffffff + 1 in a 32 bit word
WrapMod == WrapStep
\* 0x0fffffff + 1 in a 32 bit word
IntervalMod == 2 ^ (WordBits - 4)

NULL == "null"
S == "S"
TW == "TW"
UserChores == {"A", "B"}
Node == {S, TW} \cup UserChores
Ptr == Node \cup {NULL}

\* What the memory at address 0 may hold at start.
GarbagePtr == {NULL, S}
GarbageTime == {0, Word - 1}

\* The intervals the host asks for: some need more than the bits kept.
RawInterval == 0 .. (2 * IntervalMod - 1)

VARIABLES
  m_next, m_prev, m_parent, m_targetTime, m_interval,
  m_baseTime, millis,
  pc, chore, ptr, ret,
  result, ranLog, insertOrder, nullDeref, nullWritable, destroyed

heap == <<m_next, m_prev, m_parent, m_targetTime, m_interval>>
vars == <<m_next, m_prev, m_parent, m_targetTime, m_interval,
          m_baseTime, millis, pc, chore, ptr, ret, result, ranLog,
          insertOrder, nullDeref, nullWritable, destroyed>>

\* ------------------------------------------------------------- memory
\* p->field = v.  A store through the null pointer lands only if the memory
\* at address 0 is writable.
Wr(f, p, v) == IF p = NULL /\ ~nullWritable THEN f ELSE [f EXCEPT ![p] = v]

\* uint32_t arithmetic
Plus(a, b) == (a + b) % Word
Minus(a, b) == (a - b + Word) % Word
\* the value of a word read as int32_t
Signed(x) == IF x >= Word \div 2 THEN x - Word ELSE x

\* Scheduler::GetCurrentTime: millis() - m_baseTime
GetCurrentTime == Minus(millis, m_baseTime)

\* SchedulerChore::operator<
Less(a, b) == m_targetTime[a] < m_targetTime[b]

\* SchedulerChore(inter): m_interval &= 0x0fffffff
MaskInterval(v) == v % IntervalMod

\* SchedulerChore::InsertBefore, called as this->InsertBefore(c): the four
\* stores in source order.  null: a null pointer was dereferenced.
InsertBefore(nx, pv, this, c) ==
  LET nx1 == Wr(nx, c, this)
      pv1 == Wr(pv, c, pv[this])
      nx2 == Wr(nx1, pv1[this], c)
      pv2 == Wr(pv1, this, c)
  IN  [next |-> nx2, prev |-> pv2,
       null |-> (this = NULL \/ c = NULL \/ pv1[this] = NULL)]

\* SchedulerChore::Remove, called as this->Remove().
Remove(nx, pv, this) ==
  LET nx1 == Wr(nx, pv[this], nx[this])
      pv1 == Wr(pv, nx1[this], pv[this])
  IN  [next |-> Wr(nx1, this, NULL),
       prev |-> Wr(pv1, this, NULL),
       null |-> (this = NULL \/ pv[this] = NULL \/ nx1[this] = NULL)]

\* Schedule: chore->m_targetTime = GetCurrentTime() + chore->m_interval
ScheduleTime(c) == Plus(GetCurrentTime, m_interval[c])

\* Variant of RescheduleTime that drifts: the next due time is counted from
\* the current time instead of from the old due time.
RescheduleFromNow(c) == Plus(GetCurrentTime, m_interval[c])

\* Reschedule: chore->m_targetTime += chore->m_interval
RescheduleTime(c) == Plus(m_targetTime[c], m_interval[c])

\* Variant of IsDue with the subtraction the wrong way round.
IsDueReversed(c) == Signed(Minus(GetCurrentTime, m_targetTime[c])) <= 1

\* RunScheduler: int32_t delta (m_next->m_targetTime - GetCurrentTime()); delta <= 1
Delta(c) == Signed(Minus(m_targetTime[c], GetCurrentTime))
IsDue(c) == Delta(c) <= 1

\* Schedule: if (chore->m_parent != 0) return -1
IsActive(c) == m_parent[c] # NULL

\* Variant of Orphaned for a dispatch loop without the orphan test.
OrphanedNever(c) == FALSE

\* RunScheduler: the test for an orphaned chore, chore->m_parent == 0
Orphaned(c) == m_parent[c] = NULL

\* Reschedule: if (chore->m_parent == 0) return -1; par is m_parent after Run()
NotAttached(par, c) == par[c] = NULL

\* SchedulerChore::AbortChore: if (m_parent != 0)
HasParent(c) == m_parent[c] # NULL

\* The chore is scheduled: its owner is the scheduler.
Owned(c) == m_parent[c] = S

\* TimerWrap::Run: ptr->m_targetTime &= 0x3fffffff
Truncate(t) == t % WrapMod

\* Scheduler::AbortChore(c): the links after it.  The test is on the
\* scheduler's own m_parent.
AbortLinks(nx, pv, c) ==
  IF m_parent[S] # NULL THEN Remove(nx, pv, c)
  ELSE [next |-> nx, prev |-> pv, null |-> FALSE]

\* The sequence q without the chore c.
Without(q, c) == SelectSeq(q, LAMBDA x : x # c)

\* The step stops the program at its null dereference.
Fault ==
  /\ pc' = "fault"
  /\ nullDeref' = TRUE
  /\ UNCHANGED <<heap, m_baseTime, millis, chore, ptr, ret, result, ranLog,
                 nullWritable, destroyed, insertOrder>>

\* ------------------------------------------------------------- initial state
\* The members are constructed, the body of Scheduler::Scheduler has not run:
\* SchedulerChore() zeroes every field, TimerWrap() sets its target time.
\* The user chores are constructed by SchedulerChore(inter).
Init ==
  /\ nullWritable \in BOOLEAN
  /\ \E gn, gp \in GarbagePtr :
       /\ m_next = [n \in Ptr |-> IF n = NULL THEN gn ELSE NULL]
       /\ m_prev = [n \in Ptr |-> IF n = NULL THEN gp ELSE NULL]
  /\ \E g \in {NULL, S} : m_parent = [n \in Ptr |-> IF n = NULL THEN g ELSE NULL]
  /\ \E g \in GarbageTime :
       m_targetTime = [n \in Ptr |-> IF n = NULL THEN g
                                     ELSE IF n = TW THEN WrapStep ELSE 0]
  /\ \E inter \in [UserChores -> RawInterval] :
       m_interval = [n \in Ptr |-> IF n \in UserChores
                                    THEN MaskInterval(inter[n]) ELSE 0]
  /\ m_baseTime = 0
  /\ millis = Word - 2
  /\ pc = "ctor"
  /\ chore = NULL
  /\ ptr = NULL
  /\ ret = "idle"
  /\ result = "void"
  /\ ranLog = <<>>
  /\ insertOrder = <<>>
  /\ nullDeref = FALSE
  /\ destroyed = {}

\* ------------------------------------------------------------- actions
\* Scheduler::Scheduler: the body up to the loop of Insert(&m_timerWrap).
Constructor ==
  /\ pc = "ctor"
  /\ m_next' = [m_next EXCEPT ![S] = S]
  /\ m_prev' = [m_prev EXCEPT ![S] = S]
  /\ m_baseTime' = millis
  /\ m_targetTime' = [m_targetTime EXCEPT ![TW] = Plus(0, m_interval[TW])]
  /\ m_parent' = [m_parent EXCEPT ![TW] = S]
  /\ chore' = TW
  /\ ptr' = S
  /\ ret' = "idle"
  /\ pc' = "insert"
  /\ UNCHANGED <<m_interval, millis, result, ranLog, nullDeref, nullWritable, destroyed, insertOrder>>

\* Scheduler::Schedule(c) called by the host: the early return, or the body
\* up to the loop of Insert.
Schedule(c) ==
  /\ pc = "idle"
  /\ c \notin destroyed
  /\ IF IsActive(c)
       THEN /\ result' = "-1"
            /\ UNCHANGED <<heap, m_baseTime, millis, pc, chore, ptr, ret,
                           ranLog, nullDeref, nullWritable, destroyed, insertOrder>>
       ELSE /\ m_targetTime' = [m_targetTime EXCEPT ![c] = ScheduleTime(c)]
            /\ m_parent' = [m_parent EXCEPT ![c] = S]
            /\ chore' = c
            /\ ptr' = m_next[S]
            /\ ret' = "idle"
            /\ pc' = "insert"
            /\ UNCHANGED <<m_next, m_prev, m_interval, m_baseTime, millis, result,
                           ranLog, nullDeref, nullWritable, destroyed, insertOrder>>

\* Scheduler::Insert: one pass of the for loop (ptr # this), or the code after
\* the loop (ptr = this), which ends Insert and returns to its caller.
InsertStep ==
  /\ pc = "insert"
  /\ IF ptr # S
       THEN LET r == IF Less(chore, ptr)
                       THEN InsertBefore(m_next, m_prev, chore, ptr)
                       ELSE [next |-> m_next, prev |-> m_prev, null |-> FALSE]
                isNull == ptr = NULL \/ r.null
            IN  \/ /\ m_next' = r.next
                   /\ m_prev' = r.prev
                   /\ ptr' = r.next[ptr]
                   /\ nullDeref' = (nullDeref \/ isNull)
                   /\ UNCHANGED <<m_parent, m_targetTime, m_interval, m_baseTime,
                                  millis, pc, chore, ret, result, ranLog, nullWritable, destroyed, insertOrder>>
                \/ isNull /\ Fault
       ELSE LET r == InsertBefore(m_next, m_prev, chore, S)
            IN  \/ /\ m_next' = r.next
                   /\ m_prev' = r.prev
                   /\ pc' = ret
                   /\ chore' = NULL
                   /\ ptr' = NULL
                   /\ ret' = "idle"
                   /\ result' = IF ret = "idle" THEN "0" ELSE result
                   /\ nullDeref' = (nullDeref \/ r.null)
                   /\ insertOrder' = IF chore \in UserChores
                                       THEN Append(Without(insertOrder, chore), chore)
                                       ELSE insertOrder
                   /\ UNCHANGED <<m_parent, m_targetTime, m_interval, m_baseTime,
                                  millis, ranLog, nullWritable, destroyed>>
                \/ r.null /\ Fault

\* RunScheduler() called by the host.
RunScheduler ==
  /\ pc = "idle"
  /\ pc' = "run"
  /\ ranLog' = <<>>
  /\ UNCHANGED <<heap, m_baseTime, millis, chore, ptr, ret, result, nullDeref,
                 nullWritable, destroyed, insertOrder>>

\* RunScheduler: the head is not due: break and return.
RunReturn ==
  /\ pc = "run"
  /\ ~IsDue(m_next[S])
  /\ \/ /\ pc' = "idle"
        /\ result' = "void"
        /\ ranLog' = <<>>
        /\ nullDeref' = (nullDeref \/ m_next[S] = NULL)
        /\ UNCHANGED <<heap, m_baseTime, millis, chore, ptr, ret, nullWritable, destroyed, insertOrder>>
     \/ m_next[S] = NULL /\ Fault

\* RunScheduler: a pass of the while loop that dispatches the head, up to the
\* loop of Insert (called by Reschedule) or of TimerWrap::Run.  selfAbort says
\* whether the user chore's Run() calls its own AbortChore().
RunStep ==
  /\ pc = "run"
  /\ IsDue(m_next[S])
  /\ LET head == m_next[S]
         r == Remove(m_next, m_prev, head)
     IN
     \/ r.null /\ Fault
     \/ /\ UNCHANGED <<m_interval, m_baseTime, millis, result, nullWritable, destroyed>>
        /\ IF Orphaned(head)
             THEN \* orphaned chore: not run
                  /\ m_next' = r.next
                  /\ m_prev' = r.prev
                  /\ nullDeref' = (nullDeref \/ r.null)
                  /\ UNCHANGED <<m_parent, m_targetTime, pc, chore, ptr, ret, ranLog,
                                 insertOrder>>
             ELSE IF head = NULL
             THEN \* Run() called through the null pointer
                  Fault
             ELSE IF head = TW
             THEN \* TimerWrap::Run up to its loop
                  /\ m_next' = r.next
                  /\ m_prev' = r.prev
                  /\ m_targetTime' = [m_targetTime EXCEPT ![TW] = Plus(@, WrapStep)]
                  /\ chore' = TW
                  /\ ptr' = r.next[TW]
                  /\ pc' = "twrap"
                  /\ nullDeref' = (nullDeref \/ r.null)
                  /\ UNCHANGED <<m_parent, ret, ranLog, insertOrder>>
             ELSE \E selfAbort \in (IF head \in UserChores THEN BOOLEAN ELSE {FALSE}) :
                  \* Run(), which may abort its own chore, then Reschedule:
                  \* its early return, or its body up to the loop of Insert
                  LET a == IF selfAbort THEN AbortLinks(r.next, r.prev, head)
                           ELSE [next |-> r.next, prev |-> r.prev, null |-> FALSE]
                      par == IF selfAbort THEN [m_parent EXCEPT ![head] = NULL]
                             ELSE m_parent
                  IN  /\ head \in UserChores => Len(ranLog) < MaxRuns
                      /\ ranLog' = IF head \in UserChores
                                     THEN Append(ranLog, head) ELSE ranLog
                      /\ m_next' = a.next
                      /\ m_prev' = a.prev
                      /\ nullDeref' = (nullDeref \/ r.null \/ a.null)
                      /\ insertOrder' = IF selfAbort THEN Without(insertOrder, head)
                                        ELSE insertOrder
                      /\ IF NotAttached(par, head)
                           THEN /\ m_parent' = par
                                /\ UNCHANGED <<m_targetTime, pc, chore, ptr, ret>>
                           ELSE /\ m_targetTime' = [m_targetTime EXCEPT
                                                      ![head] = RescheduleTime(head)]
                                /\ m_parent' = [par EXCEPT ![head] = S]
                                /\ chore' = head
                                /\ ptr' = a.next[S]
                                /\ ret' = "run"
                                /\ pc' = "insert"

\* TimerWrap::Run: one pass of its for loop (ptr # this), or its return and
\* Reschedule(&m_timerWrap) up to the loop of Insert.
WrapStepRun ==
  /\ pc = "twrap"
  /\ IF ptr # TW
       THEN \/ /\ m_targetTime' = Wr(m_targetTime, ptr, Truncate(m_targetTime[ptr]))
               /\ ptr' = m_next[ptr]
               /\ nullDeref' = (nullDeref \/ ptr = NULL)
               /\ UNCHANGED <<m_next, m_prev, m_parent, m_interval, m_baseTime,
                              millis, pc, chore, ret, result, ranLog, nullWritable, destroyed, insertOrder>>
            \/ ptr = NULL /\ Fault
       ELSE IF NotAttached(m_parent, TW)
         THEN /\ pc' = "run"
              /\ chore' = NULL
              /\ ptr' = NULL
              /\ UNCHANGED <<heap, m_baseTime, millis, ret, result, ranLog,
                             nullDeref, nullWritable, destroyed, insertOrder>>
         ELSE /\ m_targetTime' = [m_targetTime EXCEPT ![TW] = RescheduleTime(TW)]
              /\ m_parent' = [m_parent EXCEPT ![TW] = S]
              /\ chore' = TW
              /\ ptr' = m_next[S]
              /\ ret' = "run"
              /\ pc' = "insert"
              /\ UNCHANGED <<m_next, m_prev, m_interval, m_baseTime, millis,
                             result, ranLog, nullDeref, nullWritable, destroyed, insertOrder>>

\* Scheduler::AbortChore(c) called by the host.
SchedulerAbortChore(c) ==
  /\ pc = "idle"
  /\ c \notin destroyed
  /\ LET a == AbortLinks(m_next, m_prev, c)
     IN  \/ /\ m_next' = a.next
            /\ m_prev' = a.prev
            /\ m_parent' = [m_parent EXCEPT ![c] = NULL]
            /\ result' = "0"
            /\ nullDeref' = (nullDeref \/ a.null)
            /\ insertOrder' = Without(insertOrder, c)
            /\ UNCHANGED <<m_targetTime, m_interval, m_baseTime, millis, pc,
                           chore, ptr, ret, ranLog, nullWritable, destroyed>>
         \/ a.null /\ Fault

\* SchedulerChore::AbortChore() of chore c called by the host.
ChoreAbortChore(c) ==
  /\ pc = "idle"
  /\ c \notin destroyed
  /\ IF HasParent(c)
       THEN LET a == AbortLinks(m_next, m_prev, c)
            IN  \/ /\ m_next' = a.next
                   /\ m_prev' = a.prev
                   /\ m_parent' = [m_parent EXCEPT ![c] = NULL]
                   /\ result' = "0"
                   /\ nullDeref' = (nullDeref \/ a.null)
                   /\ insertOrder' = Without(insertOrder, c)
                   /\ UNCHANGED <<m_targetTime, m_interval, m_baseTime, millis,
                                  pc, chore, ptr, ret, ranLog, nullWritable, destroyed>>
                \/ a.null /\ Fault
       ELSE /\ result' = "-1"
            /\ UNCHANGED <<heap, m_baseTime, millis, pc, chore, ptr, ret,
                           ranLog, nullDeref, nullWritable, destroyed, insertOrder>>

\* ~SchedulerChore of chore c, run by the host between two calls: it clears
\* m_parent and touches no link.  The host calls nothing on c afterwards.
Destroy(c) ==
  /\ pc = "idle"
  /\ c \notin destroyed
  /\ m_parent' = [m_parent EXCEPT ![c] = NULL]
  /\ destroyed' = destroyed \cup {c}
  /\ insertOrder' = Without(insertOrder, c)
  /\ UNCHANGED <<m_next, m_prev, m_targetTime, m_interval, m_baseTime, millis,
                 pc, chore, ptr, ret, result, ranLog, nullDeref, nullWritable>>

\* The storage of a destroyed chore is still linked: a loop that inspects it
\* reads released storage.  Either the old values are still there, and the
\* step is the ordinary one, or the access traps.
Dangling ==
  /\ \/ pc = "run" /\ m_next[S] \in destroyed
     \/ pc = "insert" /\ ptr \in destroyed
  /\ Fault

\* Variant of MaskInterval that keeps one bit too many.
MaskIntervalWide(v) == v % (2 * IntervalMod)

\* SchedulerChore::Interval(inter): m_interval = inter & 0x0fffffff
MaskIntervalSet(v) == v % IntervalMod

\* The chore has not been scheduled yet: it is as its constructor left it.
Fresh(c) ==
  /\ m_parent[c] = NULL /\ m_next[c] = NULL /\ m_prev[c] = NULL
  /\ m_targetTime[c] = 0

\* SchedulerChore::Interval(inter) of chore c called by the host, which sets
\* the interval before it schedules the chore, as the constructor's comment
\* asks, and reads it back: Interval() returns m_interval.
SetInterval(c, v) ==
  /\ pc = "idle"
  /\ c \notin destroyed
  /\ Fresh(c)
  /\ m_interval' = [m_interval EXCEPT ![c] = MaskIntervalSet(v)]
  /\ result' = "interval"
  /\ UNCHANGED <<m_next, m_prev, m_parent, m_targetTime, m_baseTime, millis,
                 pc, chore, ptr, ret, ranLog, insertOrder, nullDeref,
                 nullWritable, destroyed>>

\* millis() advances by one, between two readings of the clock.
Tick ==
  /\ pc \in {"idle", "run"}
  /\ GetCurrentTime < MaxNow
  /\ millis' = Plus(millis, 1)
  /\ UNCHANGED <<heap, m_baseTime, pc, chore, ptr, ret, result, ranLog, nullDeref,
                 nullWritable, destroyed, insertOrder>>

Next ==
  \/ Constructor
  \/ \E c \in UserChores : Schedule(c)
  \/ InsertStep
  \/ RunScheduler
  \/ RunReturn
  \/ RunStep
  \/ WrapStepRun
  \/ \E c \in UserChores : SchedulerAbortChore(c)
  \/ \E c \in UserChores : ChoreAbortChore(c)
  \/ \E c \in UserChores : Destroy(c)
  \/ Dangling
  \/ \E c \in UserChores, v \in RawInterval : SetInterval(c, v)
  \/ Tick

Spec == Init /\ [][Next]_vars

\* ------------------------------------------------------------- the queue
\* The chores met by following m_next from the sentinel, up to the sentinel
\* or a null link.
RECURSIVE Walk(_, _)
Walk(n, k) ==
  IF n = S \/ n = NULL \/ k = 0 THEN <<>>
  ELSE <<n>> \o Walk(m_next[n], k - 1)

Queue == Walk(m_next[S], Cardinality(Node))

InQueue(c) == \E i \in 1 .. Len(Queue) : Queue[i] = c

Before(a, b) ==
  \E i, j \in 1 .. Len(Queue) : i < j /\ Queue[i] = a /\ Queue[j] = b

CountInQueue(c) == Cardinality({i \in 1 .. Len(Queue) : Queue[i] = c})

\* Run() of user chore c is invoked by this step.
Runs(c) == ranLog' = Append(ranLog, c)

\* ------------------------------------------------------------- claims

\* C1 (as claimed): after every completed call, the walk from the sentinel
\* visits the scheduled chores in non-decreasing m_targetTime order: of two
\* scheduled chores the one with the smaller due time is met first.
C1_QueueSortedByDueTime ==
  pc = "idle" =>
    \A a, b \in UserChores :
      (Owned(a) /\ Owned(b) /\ m_targetTime[a] < m_targetTime[b]) => Before(a, b)

\* C2 (as claimed): after every completed call, a chore's m_parent names the
\* scheduler if and only if the chore is reachable from the sentinel.
C2_OwnedIffReachable ==
  pc = "idle" => \A c \in UserChores : Owned(c) <=> InQueue(c)

\* C3 (as claimed): a chore is first run by the earliest RunScheduler call
\* that sees now >= T + interval: Run() is never invoked before the due time
\* has been reached, and a call never returns leaving a scheduled chore
\* whose due time has been reached without having run it.
C3_FirstRunAtDueTime ==
  [][/\ \A c \in UserChores : Runs(c) => Signed(Minus(m_targetTime[c], GetCurrentTime)) <= 0
     /\ (pc = "run" /\ pc' = "idle") =>
          \A c \in UserChores :
            (Owned(c) /\ Signed(Minus(m_targetTime[c], GetCurrentTime)) <= 0) =>
              \E i \in 1 .. Len(ranLog) : ranLog[i] = c
    ]_vars

\* C4 (as claimed): every run of a user chore leaves its due time at the
\* old due time plus the interval.
C4_RunAdvancesDueTime ==
  [][\A c \in UserChores :
       Runs(c) => m_targetTime'[c] = (m_targetTime[c] + m_interval[c]) % Word
    ]_vars

\* C4 (amended): every run of a user chore that is still scheduled when
\* Run() has returned leaves its due time at the old due time plus the
\* interval, whatever the current time is; between a Schedule call and the
\* runs nothing else moves the due time of a chore.
C4_RescheduledRunAdvancesDueTime ==
  [][\A c \in UserChores :
       /\ (Runs(c) /\ m_parent'[c] # NULL) =>
            m_targetTime'[c] = (m_targetTime[c] + m_interval[c]) % Word
       /\ m_targetTime'[c] # m_targetTime[c] =>
            \/ Runs(c)
            \/ pc = "idle" /\ pc' = "insert" /\ chore' = c
    ]_vars

\* A run has rescheduled a chore to a due time that is not now + interval.
C4_Witness ==
  /\ pc = "insert" /\ ret = "run" /\ chore \in UserChores
  /\ Len(ranLog) > 0 /\ ranLog[Len(ranLog)] = chore
  /\ m_interval[chore] > 0
  /\ m_targetTime[chore] # (GetCurrentTime + m_interval[chore]) % Word

C6_AbortedNeverRuns ==
  [][\A c \in UserChores :
       /\ (SchedulerAbortChore(c) \/ ChoreAbortChore(c)) => m_parent'[c] = NULL
       /\ Runs(c) => m_parent[c] = S
       /\ (m_parent[c] = NULL /\ m_parent'[c] # NULL) =>
            (pc = "idle" /\ pc' = "insert" /\ chore' = c)
    ]_vars

\* An aborted chore is at the head of the queue, due, when the dispatch
\* loop inspects it.
C6_Witness ==
  /\ pc = "run" /\ ranLog = <<>>
  /\ m_next[S] \in UserChores
  /\ m_parent[m_next[S]] = NULL
  /\ Signed(Minus(m_targetTime[m_next[S]], GetCurrentTime)) <= 0

\* C7 (as claimed): aborting a chore that has no owner returns -1 and
\* changes nothing, through Scheduler::AbortChore and through
\* SchedulerChore::AbortChore alike.
C7_AbortUnownedFails ==
  [][\A c \in UserChores :
       ((SchedulerAbortChore(c) \/ ChoreAbortChore(c)) /\ m_parent[c] = NULL) =>
         (result' = "-1" /\ UNCHANGED heap)
    ]_vars

\* C8 (as claimed): Schedule of a chore that has an owner returns -1 and leaves the due
\* times, the owners and the links unchanged; a Schedule call of a detached
\* chore that returns, returns 0 with the due time at now + interval, the
\* scheduler as owner and the chore met exactly once on the walk from the
\* sentinel.
C8_ScheduleContract ==
  [][\A c \in UserChores :
       /\ (Schedule(c) /\ m_parent[c] # NULL) =>
            (result' = "-1" /\ pc' = "idle" /\ UNCHANGED heap)
       /\ (pc = "insert" /\ ret = "idle" /\ chore = c /\ pc' = "idle") =>
            /\ result' = "0"
            /\ m_targetTime'[c] = (GetCurrentTime + m_interval[c]) % Word
            /\ m_parent'[c] = S
            /\ CountInQueue(c)' = 1
    ]_vars

\* a was inserted before b, both still where their last insertion put them
InsertedBefore(a, b) ==
  \E i, j \in 1 .. Len(insertOrder) :
    i < j /\ insertOrder[i] = a /\ insertOrder[j] = b

\* C9 (as claimed): chores with equal due times run in insertion order: a
\* chore is not run while a scheduled chore with the same due time that was
\* inserted before it is still waiting for its run.
C9_EqualDueTimesRunFifo ==
  [][\A a, b \in UserChores :
       ~ /\ Runs(b)
         /\ a # b /\ Owned(a)
         /\ m_targetTime[a] = m_targetTime[b]
         /\ InsertedBefore(a, b)
    ]_vars

\* C10 (as claimed): a chore that aborts itself inside Run() is not
\* reinserted and is left detached, without owner and out of the queue, and
\* the dispatch loop goes on with a queue it can walk: the sentinel's
\* m_next is a node.
C10_SelfAbortInRun ==
  [][\A c \in UserChores :
       (Runs(c) /\ m_parent[c] = S /\ m_parent'[c] = NULL) =>
         /\ pc' = "run"
         /\ ~InQueue(c)'
         /\ m_next'[S] # NULL
    ]_vars

\* C11 (as claimed): a destroyed chore is detached: it is not met on the
\* walk from the sentinel and no link of a node refers to it.
C11_DestroyedIsDetached ==
  \A c \in destroyed :
    /\ ~InQueue(c)
    /\ \A n \in Node \ destroyed : m_next[n] # c /\ m_prev[n] # c

\* C12 (as claimed): once constructed, the scheduler holds its wrap guard
\* with a due time of 0x40000000 or a later multiple of it; the guard is run
\* only when the scheduler's time has reached its due time, within the one
\* millisecond RunScheduler allows, so never before 0x40000000 - 1; and a
\* run advances the guard's due time by 0x40000000.
C12_WrapGuardCadence ==
  [][/\ pc = "idle" =>
          (m_targetTime[TW] >= WrapStep /\ m_targetTime[TW] % WrapStep = 0)
     /\ (pc = "run" /\ pc' = "twrap") =>
          /\ GetCurrentTime >= WrapStep - 1
          /\ m_targetTime'[TW] = (m_targetTime[TW] + WrapStep) % Word
    ]_vars

\* The case of C13 and C14 does not occur: while the wrap guard's Run() is
\* executing no user chore has an owner or a due time, since the guard is at
\* the head only before the first Schedule call of a chore, and the loop of
\* Run() never gets back to the guard.
WrapGuardRunsAlone ==
  pc = "twrap" =>
    /\ \A c \in UserChores : m_parent[c] = NULL /\ m_targetTime[c] = 0
    /\ ptr # TW

\* C15: the stored interval is the requested value masked to 28 bits:
\* Interval(v) leaves v & 0x0fffffff, which Interval() returns, and no
\* chore ever holds an interval of 2^28 or more; the chores constructed with
\* an interval start with it masked.
C15_IntervalMasked ==
  [][/\ \A c \in UserChores, v \in RawInterval :
          SetInterval(c, v) =>
            (m_interval'[c] = v % IntervalMod /\ m_interval'[c] < IntervalMod)
     /\ \A n \in Node : m_interval[n] < IntervalMod /\ m_interval'[n] < IntervalMod
    ]_vars

\* A chore holds the low bits of a requested interval that needed more bits
\* than are kept: Interval(2^28 + 1) has left 1.
C15_Witness ==
  /\ pc = "idle" /\ result = "interval"
  /\ \E c \in UserChores : Fresh(c) /\ m_interval[c] = (IntervalMod + 1) % IntervalMod
  /\ IntervalMod + 1 \in RawInterval

\* Following m_next from n meets t within k links.
RECURSIVE Reaches(_, _, _)
Reaches(n, t, k) ==
  IF n = t THEN TRUE
  ELSE IF k = 0 THEN FALSE
  ELSE Reaches(m_next[n], t, k - 1)

\* C16 (as claimed): a RunScheduler call comes to an end with the clock held
\* fixed: the loop of the wrap guard's Run(), which changes no link, is on
\* its way to the guard, and a dispatch pass that reschedules a chore moves
\* its due time, so that the pass is not repeated in the same state.
C16_RunSchedulerTerminates ==
  [][/\ pc = "twrap" => Reaches(ptr, TW, Cardinality(Ptr))
     /\ \A c \in UserChores :
          ~ /\ Runs(c)
            /\ m_parent'[c] # NULL
            /\ m_targetTime'[c] = m_targetTime[c]
    ]_vars

\* C17 (as claimed): after every completed operation the queue is a ring:
\* following m_next from the sentinel comes back to the sentinel, every node
\* n on the way has n.next.prev = n and n.prev.next = n, and no chore is met
\* twice.
C17_RingWellFormed ==
  pc = "idle" =>
    /\ Reaches(m_next[S], S, Cardinality(Node))
    /\ \A n \in {S} \cup {Queue[i] : i \in 1 .. Len(Queue)} :
         /\ m_next[n] # NULL /\ m_prev[n] # NULL
         /\ m_prev[m_next[n]] = n
         /\ m_next[m_prev[n]] = n
    /\ \A c \in Node : CountInQueue(c) <= 1

\* C18 (as claimed): no operation dereferences a null m_next or m_prev.
C18_NoNullLinkFollowed == nullDeref = FALSE

\* C19 (as claimed): whenever RunScheduler inspects the head of the queue,
\* the wrap guard is in the queue and the head is a chore, neither the
\* sentinel nor a null pointer.
C19_HeadIsARealChore ==
  pc = "run" => (InQueue(TW) /\ m_next[S] \in Node \ {S})

\* C20 (as claimed): when RunScheduler returns, no scheduled chore, the
\* head or any other, is left due: dueTime - now > 1 as int32_t for each.
C20_NothingDueAtReturn ==
  [][(pc = "run" /\ pc' = "idle") =>
       \A c \in Node \ {S} :
         m_parent[c] = S => Signed(Minus(m_targetTime[c], GetCurrentTime)) > 1
    ]_vars

====
